---- MODULE Spec2Model ----
(***************************************************************************)
(* memflow-LiME: the LiME header parser and the record walk of            *)
(* create_connector (src/src/lib.rs).                                     *)
(*                                                                         *)
(* A u32 / u64 is kept at its true width: it is a tuple of 16-bit limbs,  *)
(* least significant limb first (2 limbs for a u32, 4 for a u64), and the *)
(* arithmetic below carries and borrows across the limbs.  A file is the  *)
(* sequence of its bytes.                                                  *)
(***************************************************************************)
EXTENDS Integers, Sequences, FiniteSets, TLC

VARIABLES
    target,           \* args.target: "none", "unreadable" (File::open fails), "dump"
    file,             \* the bytes of the dump file at the target path
    overflow_checks,  \* the build: TRUE panics on integer overflow, FALSE wraps
    lime_dump,        \* TRUE once File::open returned the handle
    pos,              \* the file position of lime_dump (u64 limbs)
    offset,           \* the local `offset` of create_connector
    map,              \* the push_remap calls made on `map`, in order
    buff,             \* the 32 bytes of the last successful read_exact
    header,           \* the header bound by the last `while let Some(header)`
    pc,               \* "start", "walk", "ok" (reader returned), "err", "panic"
    err,              \* the ErrorKind returned when pc = "err"
    cause             \* the underlying error that the code maps to `err`

vars == <<target, file, overflow_checks, lime_dump, pos, offset, map, buff,
          header, pc, err, cause>>

-----------------------------------------------------------------------------
(* Bounds of the model *)

MaxRecords == 2     \* records written into a generated dump
MaxPayload == 2     \* payload bytes actually present after a header
MaxEntries == 3     \* push_remap calls followed (a walk can loop for ever)

-----------------------------------------------------------------------------
(* Fixed-width unsigned integers *)

Radix == 256 * 256
HalfRadix == 128 * 256

\* a small natural number as a u64
U64(n) == <<n % Radix, n \div Radix, 0, 0>>

U64_MAX == <<Radix - 1, Radix - 1, Radix - 1, Radix - 1>>

\* a + b over u64: the wrapped value and the carry out of bit 63
AddU64(a, b) ==
    LET s1 == a[1] + b[1]
        s2 == a[2] + b[2] + (s1 \div Radix)
        s3 == a[3] + b[3] + (s2 \div Radix)
        s4 == a[4] + b[4] + (s3 \div Radix)
    IN  [val |-> <<s1 % Radix, s2 % Radix, s3 % Radix, s4 % Radix>>,
         carry |-> s4 \div Radix]

\* a - b over u64: the wrapped value and the borrow out of bit 63
SubU64(a, b) ==
    LET d1 == a[1] - b[1]
        b1 == IF d1 < 0 THEN 1 ELSE 0
        d2 == a[2] - b[2] - b1
        b2 == IF d2 < 0 THEN 1 ELSE 0
        d3 == a[3] - b[3] - b2
        b3 == IF d3 < 0 THEN 1 ELSE 0
        d4 == a[4] - b[4] - b3
        b4 == IF d4 < 0 THEN 1 ELSE 0
    IN  [val |-> <<d1 + b1 * Radix, d2 + b2 * Radix, d3 + b3 * Radix, d4 + b4 * Radix>>,
         borrow |-> b4]

LtU64(a, b) == SubU64(a, b).borrow = 1
LeU64(a, b) == ~LtU64(b, a)

\* `x as i64` is negative
NegativeAsI64(x) == x[4] >= HalfRadix

-----------------------------------------------------------------------------
(* binread, little-endian *)

\* the u16 at byte offset `at` (0-based) of b
U16LE(b, at) == b[at + 1] + 256 * b[at + 2]
U32LE(b, at) == <<U16LE(b, at), U16LE(b, at + 2)>>
U64LE(b, at) == <<U16LE(b, at), U16LE(b, at + 2), U16LE(b, at + 4), U16LE(b, at + 6)>>

HEADER_SIZE_IN_BYTES == 32

\* the magic taken in file order: the u32 that the bytes 4C 69 4D 45 give
\* when read little-endian (0x454D694C)
MAGIC_FileOrder == <<26956, 17741>>

\* #[br(magic = 0x4C69_4D45_u32)]
MAGIC == <<19781, 19561>>

NoHeader == [version |-> <<0, 0>>, s_addr |-> U64(0), e_addr |-> U64(0),
             reserved |-> <<>>]

\* read_le without the assert on `reserved`
LimeHeader_read_le_NoReservedAssert(b) ==
    LET version == U32LE(b, 4)
        s_addr == U64LE(b, 8)
        e_addr == U64LE(b, 16)
        reserved == SubSeq(b, 25, 32)
    IN  IF U32LE(b, 0) # MAGIC
          THEN [ok |-> FALSE, error |-> "BadMagic", header |-> NoHeader]
        ELSE IF version # <<1, 0>>
          THEN [ok |-> FALSE, error |-> "AssertFail(version)", header |-> NoHeader]
        ELSE IF LtU64(e_addr, s_addr)
          THEN [ok |-> FALSE, error |-> "AssertFail(e_addr)", header |-> NoHeader]
        ELSE [ok |-> TRUE, error |-> "none",
              header |-> [version |-> version, s_addr |-> s_addr,
                          e_addr |-> e_addr, reserved |-> reserved]]

\* Cursor::new(&buff).read_le::<LimeHeader>(): the fields are read in order
\* and each assert is evaluated right after its field
LimeHeader_read_le(b) ==
    LET version == U32LE(b, 4)
        s_addr == U64LE(b, 8)
        e_addr == U64LE(b, 16)
        reserved == SubSeq(b, 25, 32)
    IN  IF U32LE(b, 0) # MAGIC
          THEN [ok |-> FALSE, error |-> "BadMagic", header |-> NoHeader]
        ELSE IF version # <<1, 0>>
          THEN [ok |-> FALSE, error |-> "AssertFail(version)", header |-> NoHeader]
        ELSE IF LtU64(e_addr, s_addr)
          THEN [ok |-> FALSE, error |-> "AssertFail(e_addr)", header |-> NoHeader]
        ELSE IF reserved # <<0, 0, 0, 0, 0, 0, 0, 0>>
          THEN [ok |-> FALSE, error |-> "AssertFail(reserved)", header |-> NoHeader]
        ELSE [ok |-> TRUE, error |-> "none",
              header |-> [version |-> version, s_addr |-> s_addr,
                          e_addr |-> e_addr, reserved |-> reserved]]

-----------------------------------------------------------------------------
(* std::fs::File *)

\* the bytes between position p and the end of f
Remaining(f, p) ==
    IF p[2] = 0 /\ p[3] = 0 /\ p[4] = 0 /\ p[1] < Len(f) THEN Len(f) - p[1] ELSE 0

\* seek(SeekFrom::Current(n as i64)) from position p: lseek fails when the
\* result is negative or does not fit an i64, and positions past the end of
\* the file are accepted
SeekCurrent(p, n) ==
    LET sum == AddU64(p, n)
    IN  [ok |-> IF NegativeAsI64(n) THEN sum.carry = 1
                ELSE ~NegativeAsI64(sum.val),
         pos |-> sum.val]

-----------------------------------------------------------------------------
(* LimeHeader *)

\* self.e_addr - self.s_addr + 1, evaluated on u64
mem_section_size(h) ==
    LET d == SubU64(h.e_addr, h.s_addr)
        s == AddU64(d.val, U64(1))
    IN  [overflow |-> d.borrow = 1 \/ s.carry = 1, val |-> s.val]

\* next_header_from_file on file f at position p, without I/O failure
next_header_from_file(f, p) ==
    IF Remaining(f, p) < HEADER_SIZE_IN_BYTES
      THEN \* read_exact: UnexpectedEof => Ok(None)
           [kind |-> "None", buff |-> <<>>, header |-> NoHeader, cause |-> "none",
            pos |-> AddU64(p, U64(Remaining(f, p))).val]
    ELSE LET b == SubSeq(f, p[1] + 1, p[1] + HEADER_SIZE_IN_BYTES)
             r == LimeHeader_read_le(b)
             q == AddU64(p, U64(HEADER_SIZE_IN_BYTES)).val
         IN  IF r.ok
               THEN [kind |-> "Some", buff |-> b, header |-> r.header,
                     cause |-> "none", pos |-> q]
               ELSE [kind |-> "Err", buff |-> b, header |-> NoHeader,
                     cause |-> r.error, pos |-> q]

-----------------------------------------------------------------------------
(* Generated dumps *)

U16Bytes(l) == <<l % 256, l \div 256>>
U32Bytes(w) == U16Bytes(w[1]) \o U16Bytes(w[2])
U64Bytes(w) == U16Bytes(w[1]) \o U16Bytes(w[2]) \o U16Bytes(w[3]) \o U16Bytes(w[4])

HeaderBytes(magic, version, s, e, reserved) ==
    magic \o U32Bytes(version) \o U64Bytes(s) \o U64Bytes(e) \o reserved

EMiL == <<69, 77, 105, 76>>
LiME == <<76, 105, 77, 69>>
LiMF == <<76, 105, 77, 70>>
Zero8 == <<0, 0, 0, 0, 0, 0, 0, 0>>
Dirty8 == <<0, 0, 0, 0, 0, 0, 0, 1>>
V1 == <<1, 0>>

\* the raw_header of tests::header_parser_works
TestHeader ==
    <<69, 77, 105, 76, 1, 0, 0, 0, 0, 0, 0, 64, 0, 0, 0, 0,
      255, 255, 207, 251, 0, 0, 0, 0, 0, 0, 0, 0, 0, 0, 0, 0>>

\* headers after which the walk goes on to the bytes that follow the payload
LeadingHeaders ==
    { HeaderBytes(EMiL, V1, U64(4096), U64(4097), Zero8),         \* 2 bytes
      HeaderBytes(EMiL, V1, U64(8192), U64(8192), Zero8),         \* 1 byte
      \* s_addr = 0, e_addr = 2^64 - 1
      HeaderBytes(EMiL, V1, U64(0), U64_MAX, Zero8) }

Headers ==
    LeadingHeaders \cup
    { TestHeader,
      \* size 2^64 - 32, which is -32 as i64
      HeaderBytes(EMiL, V1, U64(0), SubU64(U64_MAX, U64(32)).val, Zero8),
      \* size 2^63, which is i64::MIN
      HeaderBytes(EMiL, V1, U64(0), <<Radix - 1, Radix - 1, Radix - 1, HalfRadix - 1>>, Zero8),
      \* size 2^63 - 1, i64::MAX
      HeaderBytes(EMiL, V1, U64(1), <<Radix - 1, Radix - 1, Radix - 1, HalfRadix - 1>>, Zero8),
      HeaderBytes(LiME, V1, U64(4096), U64(4097), Zero8),
      HeaderBytes(LiMF, V1, U64(4096), U64(4097), Zero8),
      HeaderBytes(EMiL, <<2, 0>>, U64(4096), U64(4097), Zero8),
      HeaderBytes(EMiL, <<1, 1>>, U64(4096), U64(4097), Zero8),
      HeaderBytes(EMiL, V1, U64(5), U64(3), Zero8),
      HeaderBytes(EMiL, V1, U64(4096), U64(4097), Dirty8),
      HeaderBytes(LiME, <<2, 0>>, U64(5), U64(3), Dirty8),
      HeaderBytes(EMiL, <<2, 0>>, U64(5), U64(3), Dirty8),
      HeaderBytes(EMiL, V1, U64(5), U64(3), Dirty8) }

Payload(n) == [i \in 1..n |-> 160 + i]

\* a header followed by the payload bytes present in the file, which may be
\* fewer or more than the header declares
Records(hs) == { h \o Payload(n) : h \in hs, n \in 0..MaxPayload }

\* up to k records, every one but the last with a leading header
RECURSIVE Prefixes(_)
Prefixes(k) ==
    IF k = 0 THEN { <<>> }
    ELSE LET shorter == Prefixes(k - 1)
         IN  shorter \cup { d \o r : d \in shorter, r \in Records(LeadingHeaders) }

Dumps ==
    { <<>> } \cup { d \o r : d \in Prefixes(MaxRecords - 1), r \in Records(Headers) }

\* bytes left over after the last record: none, or the start of a header
Tails == { <<>>, <<69>>, SubSeq(TestHeader, 1, 31) }

Files == { d \o t : d \in Dumps, t \in Tails }

-----------------------------------------------------------------------------
(* create_connector *)

Init ==
    /\ target \in {"none", "unreadable", "dump"}
    /\ file \in (IF target = "dump" THEN Files ELSE { <<>> })
    /\ overflow_checks \in (IF target = "dump" THEN BOOLEAN ELSE { FALSE })
    /\ lime_dump = FALSE
    /\ pos = U64(0)
    /\ offset = U64(0)
    /\ map = <<>>
    /\ buff = <<>>
    /\ header = NoHeader
    /\ pc = "start"
    /\ err = "none"
    /\ cause = "none"

Fail(kind, why) ==
    /\ pc' = "err"
    /\ err' = kind
    /\ cause' = why

\* args.target is None and the path falls back to an empty one that opens
OpenMissingTarget_NoCheck ==
    /\ pc = "start"
    /\ target = "none"
    /\ lime_dump' = TRUE
    /\ pos' = U64(0)
    /\ map' = <<>>
    /\ offset' = U64(0)
    /\ pc' = "walk"
    /\ UNCHANGED <<target, file, overflow_checks, buff, header, err, cause>>

\* args.target is None: ok_or(Error(Connector, UnableToReadFile))?
OpenMissingTarget ==
    /\ pc = "start"
    /\ target = "none"
    /\ Fail("UnableToReadFile", "no target")
    /\ UNCHANGED <<target, file, overflow_checks, lime_dump, pos, offset, map, buff, header>>

\* File::open fails: map_err(|_| Error(Connector, UnableToReadFile))?
OpenFails ==
    /\ pc = "start"
    /\ target = "unreadable"
    /\ Fail("UnableToReadFile", "open")
    /\ UNCHANGED <<target, file, overflow_checks, lime_dump, pos, offset, map, buff, header>>

\* File::open succeeds; map = MemoryMap::new(); offset = 0
OpenOk ==
    /\ pc = "start"
    /\ target = "dump"
    /\ lime_dump' = TRUE
    /\ pos' = U64(0)
    /\ map' = <<>>
    /\ offset' = U64(0)
    /\ pc' = "walk"
    /\ UNCHANGED <<target, file, overflow_checks, buff, header, err, cause>>

\* read_exact fails with an error other than UnexpectedEof
HeaderIoError ==
    /\ pc = "walk"
    /\ Fail("UnableToReadFile", "io")
    /\ buff' = <<>>
    /\ header' = NoHeader
    /\ UNCHANGED <<target, file, overflow_checks, lime_dump, pos, offset, map>>

\* the header does not parse: map_err(|_| Error(Connector, UnableToReadFile))?
HeaderParseError ==
    LET r == next_header_from_file(file, pos)
    IN  /\ pc = "walk"
        /\ r.kind = "Err"
        /\ Fail("UnableToReadFile", r.cause)
        /\ buff' = r.buff
        /\ header' = NoHeader
        /\ pos' = r.pos
        /\ UNCHANGED <<target, file, overflow_checks, lime_dump, offset, map>>

\* Ok(None) ends the loop; seek(Start(0)) and with_mem_map succeed
WalkEnd ==
    LET r == next_header_from_file(file, pos)
    IN  /\ pc = "walk"
        /\ r.kind = "None"
        /\ buff' = r.buff
        /\ header' = NoHeader
        /\ pos' = U64(0)
        /\ pc' = "ok"
        /\ UNCHANGED <<target, file, overflow_checks, lime_dump, offset, map, err, cause>>

\* Ok(None) ends the loop; seek(Start(0)) fails
WalkEndSeekError ==
    LET r == next_header_from_file(file, pos)
    IN  /\ pc = "walk"
        /\ r.kind = "None"
        /\ buff' = r.buff
        /\ header' = NoHeader
        /\ pos' = r.pos
        /\ Fail("UnableToSeekFile", "seek start")
        /\ UNCHANGED <<target, file, overflow_checks, lime_dump, offset, map>>

\* Some(header), and header.mem_section_size() overflows in a build that
\* checks overflow: the thread panics before push_remap is called
WalkPanic ==
    LET r == next_header_from_file(file, pos)
    IN  /\ pc = "walk"
        /\ r.kind = "Some"
        /\ mem_section_size(r.header).overflow
        /\ overflow_checks
        /\ buff' = r.buff
        /\ header' = r.header
        /\ pos' = r.pos
        /\ offset' = AddU64(offset, U64(HEADER_SIZE_IN_BYTES)).val
        /\ pc' = "panic"
        /\ UNCHANGED <<target, file, overflow_checks, lime_dump, map, err, cause>>

\* the entry pushed for header h with the running offset o
PushedEntry(h, o) ==
    [base |-> h.s_addr, size |-> mem_section_size(h).val, real_base |-> o]

\* one iteration of the while loop whose seek succeeds
WalkStep ==
    LET r == next_header_from_file(file, pos)
        o == AddU64(offset, U64(HEADER_SIZE_IN_BYTES)).val
        sk == SeekCurrent(r.pos, mem_section_size(r.header).val)
    IN  /\ pc = "walk"
        /\ Len(map) < MaxEntries
        /\ r.kind = "Some"
        /\ ~(mem_section_size(r.header).overflow /\ overflow_checks)
        /\ sk.ok
        /\ buff' = r.buff
        /\ header' = r.header
        /\ map' = Append(map, PushedEntry(r.header, o))
        /\ pos' = sk.pos
        /\ offset' = sk.pos
        /\ UNCHANGED <<target, file, overflow_checks, lime_dump, pc, err, cause>>

\* one iteration of the while loop whose seek fails
WalkSeekError ==
    LET r == next_header_from_file(file, pos)
        o == AddU64(offset, U64(HEADER_SIZE_IN_BYTES)).val
        sk == SeekCurrent(r.pos, mem_section_size(r.header).val)
    IN  /\ pc = "walk"
        /\ Len(map) < MaxEntries
        /\ r.kind = "Some"
        /\ ~(mem_section_size(r.header).overflow /\ overflow_checks)
        /\ ~sk.ok
        /\ buff' = r.buff
        /\ header' = r.header
        /\ map' = Append(map, PushedEntry(r.header, o))
        /\ pos' = r.pos
        /\ offset' = o
        /\ Fail("UnableToSeekFile", "seek")
        /\ UNCHANGED <<target, file, overflow_checks, lime_dump>>

Next ==
    \/ OpenMissingTarget
    \/ OpenFails
    \/ OpenOk
    \/ HeaderIoError
    \/ HeaderParseError
    \/ WalkEnd
    \/ WalkEndSeekError
    \/ WalkPanic
    \/ WalkStep
    \/ WalkSeekError

Spec == Init /\ [][Next]_vars

-----------------------------------------------------------------------------
(* Properties *)

\* the failure came from the environment (an I/O error of read or of the
\* final seek), not from the contents of the dump
IoFault(c) == c \in {"io", "seek start"}

\* the byte range [real_base, real_base + size) of entry e lies in the file
InsideFile(e) ==
    LET end == AddU64(e.real_base, e.size)
    IN  end.carry = 0 /\ LeU64(end.val, U64(Len(file)))

\* the spec's TruncatedPayload, or the memflow ErrorKind that the walk returns
\* when it cannot seek past a payload
TruncatedPayloadKinds == {"TruncatedPayload", "UnableToSeekFile"}

\* C1: a record whose declared payload extends past the end of the file makes
\* open fail with the truncated-payload error, and no reader is returned with
\* a table entry whose byte range lies partly outside the file.
C1_TruncatedPayloadRejected ==
    /\ pc = "ok" => \A k \in 1..Len(map) : InsideFile(map[k])
    /\ (/\ pc \in {"ok", "err"}
        /\ ~IoFault(cause)
        /\ \E k \in 1..Len(map) : ~InsideFile(map[k]))
       => (pc = "err" /\ err \in TruncatedPayloadKinds)

\* C2: at a record boundary, 0 remaining bytes end the walk successfully with
\* the entries appended so far, and 1..31 remaining bytes make the walk fail
\* with TruncatedHeader.
C2_BoundaryEndOfFile ==
    [][(pc = "walk" /\ ~IoFault(cause'))
         => /\ Remaining(file, pos) = 0 => (pc' = "ok" /\ map' = map)
            /\ Remaining(file, pos) \in 1..(HEADER_SIZE_IN_BYTES - 1)
                 => (pc' = "err" /\ err' = "TruncatedHeader")]_vars

\* 32 plus the sum of (32 + size) over the entries before the k-th one;
\* exact is FALSE when the sum does not fit a u64
RECURSIVE CumulativeOffset(_)
CumulativeOffset(k) ==
    IF k = 1 THEN [val |-> U64(HEADER_SIZE_IN_BYTES), exact |-> TRUE]
    ELSE LET before == CumulativeOffset(k - 1)
             a == AddU64(before.val, map[k - 1].size)
             b == AddU64(a.val, U64(HEADER_SIZE_IN_BYTES))
         IN  [val |-> b.val, exact |-> before.exact /\ a.carry = 0 /\ b.carry = 0]

\* the 32 bytes of the file that end at offset o
HeaderBefore(o) == SubSeq(file, o[1] - HEADER_SIZE_IN_BYTES + 1, o[1])

\* C3: the entries' file offsets are strictly increasing in insertion order,
\* the k-th is 32 plus the sum of (32 + length) over the earlier records, and
\* each entry is (s_addr, e_addr - s_addr + 1, that offset) of its header.
C3_OffsetsCumulative ==
    \A k \in 1..Len(map) :
        /\ CumulativeOffset(k).exact
        /\ map[k].real_base = CumulativeOffset(k).val
        /\ k > 1 => LtU64(map[k - 1].real_base, map[k].real_base)
        /\ LET h == HeaderBefore(map[k].real_base)
               s == U64LE(h, 8)
               e == U64LE(h, 16)
               len == AddU64(SubU64(e, s).val, U64(1))
           IN  /\ map[k].base = s
               /\ len.carry = 0
               /\ map[k].size = len.val

\* C9: every iteration of the walk loop strictly increases the file cursor,
\* by 32 + payload_size, so no header is read twice and the loop terminates.
C9_CursorStrictlyIncreases ==
    [][(pc = "walk" /\ pc' = "walk")
         => /\ LtU64(offset, offset')
            /\ LET a == AddU64(offset, U64(HEADER_SIZE_IN_BYTES))
                   b == AddU64(a.val, map'[Len(map')].size)
               IN  a.carry = 0 /\ b.carry = 0 /\ offset' = b.val]_vars

\* C10: mem_section_size neither wraps nor aborts, so every entry pushed into
\* the table has length >= 1.
C10_LengthAtLeastOne ==
    /\ pc # "panic"
    /\ \A k \in 1..Len(map) : LtU64(U64(0), map[k].size)

-----------------------------------------------------------------------------
(* Properties of the error kinds and of the header layout *)

\* C6 as stated: open without a target returns MissingTarget, a kind of its
\* own, without opening a file or building a table.
C6_MissingTargetKind ==
    (target = "none" /\ pc # "start")
        => /\ pc = "err"
           /\ err = "MissingTarget"
           /\ err \notin {"UnableToOpenFile", "UnableToReadFile"}
           /\ ~lime_dump
           /\ map = <<>>

\* C6 amended: open without a target returns UnableToReadFile, the kind that
\* is also returned for a file that cannot be opened and for a read failure,
\* without opening a file or building a table.
C6_MissingTargetIsUnableToReadFile ==
    /\ (target = "none" /\ pc # "start")
         => /\ pc = "err"
            /\ err = "UnableToReadFile"
            /\ ~lime_dump
            /\ map = <<>>
            /\ pos = U64(0)
    /\ (target = "unreadable" /\ pc # "start") => (pc = "err" /\ err = "UnableToReadFile")
    /\ cause = "io" => (pc = "err" /\ err = "UnableToReadFile")

C6_Witness == target = "none" /\ pc = "err" /\ cause = "no target"

\* the validation rules, stated on the 32 bytes of the header in file order
RuleMagic(b) == SubSeq(b, 1, 4) = <<69, 77, 105, 76>>
RuleVersion(b) == SubSeq(b, 5, 8) = <<1, 0, 0, 0>>

\* e_addr < s_addr, comparing the bytes from the most significant one down
RECURSIVE EndBelowStart(_, _)
EndBelowStart(b, i) ==
    IF i = 0 THEN FALSE
    ELSE IF b[16 + i] # b[8 + i] THEN b[16 + i] < b[8 + i]
    ELSE EndBelowStart(b, i - 1)

RuleRange(b) == ~EndBelowStart(b, 8)
RuleReserved(b) == \A i \in 25..32 : b[i] = 0

Violates(b) == ~(RuleMagic(b) /\ RuleVersion(b) /\ RuleRange(b) /\ RuleReserved(b))

\* the first failing rule, as the spec's error kind
FirstFailingKind(b) ==
    IF ~RuleMagic(b) THEN "BadMagic"
    ELSE IF ~RuleVersion(b) THEN "UnsupportedVersion"
    ELSE IF ~RuleRange(b) THEN "BadRange"
    ELSE "BadReserved"

\* the first failing rule, as the binread error it raises
FirstFailingCause(b) ==
    IF ~RuleMagic(b) THEN "BadMagic"
    ELSE IF ~RuleVersion(b) THEN "AssertFail(version)"
    ELSE IF ~RuleRange(b) THEN "AssertFail(e_addr)"
    ELSE "AssertFail(reserved)"

\* C7 as stated: a header that violates a validation rule is reported with the
\* error kind of its first failing rule, one kind per rule, and never as a
\* generic read failure.
C7_SpecificErrorKinds ==
    (Len(buff) = HEADER_SIZE_IN_BYTES /\ Violates(buff))
        => /\ pc = "err"
           /\ err = FirstFailingKind(buff)
           /\ err # "UnableToReadFile"

\* C7 amended: a header that violates a validation rule is rejected, the parser
\* stops at the first failing rule in the order magic, version, range,
\* reserved, and open reports all four as the one kind UnableToReadFile, the
\* kind of a generic read failure, with no entry pushed for that header.
C7_ParseErrorsAreUnableToReadFile ==
    /\ (Len(buff) = HEADER_SIZE_IN_BYTES /\ Violates(buff))
         => /\ pc = "err"
            /\ err = "UnableToReadFile"
            /\ cause = FirstFailingCause(buff)
            /\ header = NoHeader
            /\ \A k \in 1..Len(map) : map[k].real_base # pos
    /\ cause = "io" => (pc = "err" /\ err = "UnableToReadFile")

C7_Witness ==
    /\ Len(buff) = HEADER_SIZE_IN_BYTES
    /\ RuleMagic(buff) /\ RuleVersion(buff) /\ RuleRange(buff) /\ ~RuleReserved(buff)
    /\ pc = "err"

\* the header was accepted by the parser
Accepted == header # NoHeader

\* the other three rules hold of the bytes read
OtherRulesHold(b) == RuleVersion(b) /\ RuleRange(b) /\ RuleReserved(b)

\* the fields of the accepted header are the little-endian integers at the
\* offsets 4, 8 and 16 of b
FieldsLittleEndian(b) ==
    /\ header.version = <<b[5] + 256 * b[6], b[7] + 256 * b[8]>>
    /\ \A j \in 1..4 :
         /\ header.s_addr[j] = b[7 + 2 * j] + 256 * b[8 + 2 * j]
         /\ header.e_addr[j] = b[15 + 2 * j] + 256 * b[16 + 2 * j]
    /\ b = TestHeader
         => /\ header.version = <<1, 0>>
            /\ header.s_addr = <<0, 16384, 0, 0>>           \* 0x40000000
            /\ header.e_addr = <<65535, 64463, 0, 0>>       \* 0xFBD00000 - 1

\* C8 as stated: a header whose other fields are valid is accepted if and only
\* if its first four bytes in file order are 4C 69 4D 45, and the fields are
\* then read little-endian.
C8_MagicLiMEInFileOrder ==
    (Len(buff) = HEADER_SIZE_IN_BYTES /\ OtherRulesHold(buff))
        => /\ Accepted <=> SubSeq(buff, 1, 4) = <<76, 105, 77, 69>>
           /\ Accepted => FieldsLittleEndian(buff)

\* C8 amended: a header whose other fields are valid is accepted if and only
\* if its first four bytes in file order are 45 4D 69 4C ('E','M','i','L', the
\* u32 0x4C694D45 stored little-endian), the fields are then read
\* little-endian from the offsets 4, 8 and 16, and any other first four
\* bytes, 4C 69 4D 45 and 4C 69 4D 46 included, are rejected on the magic.
C8_MagicEMiLInFileOrder ==
    (Len(buff) = HEADER_SIZE_IN_BYTES /\ OtherRulesHold(buff))
        => /\ Accepted <=> SubSeq(buff, 1, 4) = <<69, 77, 105, 76>>
           /\ Accepted => FieldsLittleEndian(buff)
           /\ ~Accepted => (pc = "err" /\ cause = "BadMagic")

C8_Witness == buff = TestHeader /\ Accepted /\ pc = "walk"

C8_WitnessRejected ==
    /\ Len(buff) = HEADER_SIZE_IN_BYTES
    /\ SubSeq(buff, 1, 4) = <<76, 105, 77, 69>>
    /\ OtherRulesHold(buff)
    /\ cause = "BadMagic"

====
